---- MODULE Spec2Model ----
(***************************************************************************)
(* The swept-rule kernels of src/src/sweep/sweep.h (UpPyramid, Octahedron, *)
(* DownPyramid) with their helpers (get_sgid, get_gid, edge_comm,          *)
(* shared_state_zero) as a state machine.  A state holds the launch        *)
(* configuration, the persistent global array, one tile buffer per thread  *)
(* block, and every thread's position and locals.  One action is one       *)
(* barrier-free stretch of one thread; __syncthreads() is a wait that the  *)
(* action BarrierRelease ends.                                             *)
(***************************************************************************)
EXTENDS Integers, Sequences, FiniteSets, TLC

\* ---------------------------------------------------------------- bounds
MaxBlockDim == 3
MaxGridDim == 2
MaxBlocks == 2
MaxThreads == 4
MaxOPS == 2
MaxMPSS == 3
MaxNV == 2
MaxOct == 1
MaxStateSize == 100
MaxTile == 8
MaxRadius == 4

\* ------------------------------------------------- constant memory values
ZERO == 0
ONE == 1
TWO == 2

VARIABLES
  blockDim,   \* [x, y]: threads per block
  gridDim,    \* [x, y]: blocks per grid
  OPS,        \* stencil radius (halo width)
  MPSS,       \* max pyramid swept steps
  NV,         \* number of variables
  update,     \* the injected per-cell update: "identity" or "average"
  kernel,     \* the kernel being executed
  nOct,       \* Octahedron invocations launched so far
  state,      \* the persistent global array (flattened)
  shared,     \* block -> its shared_state tile buffer (flattened)
  pc,         \* thread -> position
  waiting,    \* thread -> TRUE while it waits in __syncthreads()
  hung,       \* block -> TRUE once its __syncthreads() can never release
  half,       \* thread -> "up" or "down": the pyramid loop it is in
  k,          \* thread -> loop counter k
  reg,        \* thread -> [lx, ux, ly, uy]: its swept bounds
  nbar,       \* thread -> barriers it has arrived at in this invocation
  wrote,      \* global offset -> blocks that wrote it, in order (history)
  wlog,       \* <<kernel, half, time level>> of every global write (history)
  rlog,       \* <<kernel, half, kind, time level>> of every seeding read
  tag,        \* block -> tile offset -> time level its value belongs to
  gread,      \* <<block, global offset>> read in this invocation (history)
  gwrite      \* <<block, global offset>> written in this invocation (history)

vars == <<blockDim, gridDim, OPS, MPSS, NV, update, kernel, nOct, state,
          shared, pc, waiting, hung, half, k, reg, nbar, wrote, wlog, rlog,
          tag, gread, gwrite>>

config == <<blockDim, gridDim, OPS, MPSS, NV, update>>

\* --------------------------------------------------------------- threads
\* A thread is <<blockIdx.x, blockIdx.y, threadIdx.x, threadIdx.y>>.
Threads ==
  (0..gridDim.x-1) \X (0..gridDim.y-1) \X (0..blockDim.x-1) \X (0..blockDim.y-1)

Blocks == (0..gridDim.x-1) \X (0..gridDim.y-1)

blockIdx(t) == [x |-> t[1], y |-> t[2]]

threadIdx(t) == [x |-> t[3], y |-> t[4]]

BlockOf(t) == <<t[1], t[2]>>

ThreadsOf(b) == {t \in Threads : BlockOf(t) = b}

\* --------------------------------------------------------------- strides
\* Width of one row of the tile buffer, and of the padded global plane.
TileW == blockDim.y + 2*OPS

TileH == blockDim.x + 2*OPS

SGIDS == TileH * TileW

GlobalM == gridDim.y*blockDim.y + 2*OPS

GlobalRows == gridDim.x*blockDim.x + 2*OPS

VARS == GlobalRows * GlobalM

TIMES == VARS * NV

\* Time levels the persistent array stores: 0 .. 2*MPSS-1.
NumLevels == 2*MPSS

StateSize == NumLevels * TIMES

SharedSize == NV * SGIDS

\* The content of memory the program has not written: an arbitrary value.
\* Undef stands for all of them at once; what is computed from it is Undef.
Undef == -1

\* The tile buffer at kernel entry: extern __shared__, not initialised.
FreshShared == [b \in Blocks |-> [o \in 0..SharedSize-1 |-> Undef]]

\* What a tile-buffer cell holds, besides its value: the time level of the
\* global array its value stands for, or that it was zeroed by
\* shared_state_zero, or that the kernel has not written it.
NotWritten == -2

Zeroed == -1

FreshTag == [b \in Blocks |-> [o \in 0..SharedSize-1 |-> NotWritten]]

\* The global array as the host hands it to the first kernel: time level 0
\* is seeded, with a unique identifier per cell (under the identity update)
\* or with 1 everywhere (under the average); the other levels are not written.
Seeded(o) ==
  IF o >= TIMES THEN Undef
  ELSE IF update = "identity" THEN o + 1 ELSE 1

\* A read of the global array; outside it, an arbitrary value.
Load(st, o) == IF o \in DOMAIN st THEN st[o] ELSE Undef

\* -------------------------------------------------------- index mapping
getGlobalIdx_2D_2D(t) ==
  LET blockId == blockIdx(t).x + blockIdx(t).y * gridDim.x
  IN  blockId * (blockDim.x * blockDim.y)
        + (threadIdx(t).y * blockDim.x) + threadIdx(t).x

get_sgid(tidx, tidy) == tidy + (blockDim.y + 2*OPS)*tidx

\* get_gid with the major-axis length left out of the block's row offset.
get_gid_NoRowStride(t) ==
  LET M == gridDim.y*blockDim.y + 2*OPS
  IN  M*(OPS + threadIdx(t).x) + OPS + threadIdx(t).y
        + blockDim.y*blockIdx(t).y + blockDim.x*blockIdx(t).x

get_gid(t) ==
  LET M == gridDim.y*blockDim.y + 2*OPS
  IN  M*(OPS + threadIdx(t).x) + OPS + threadIdx(t).y
        + blockDim.y*blockIdx(t).y + blockDim.x*blockIdx(t).x*M

tidxOf(t) == threadIdx(t).x + OPS

tidyOf(t) == threadIdx(t).y + OPS

sgidOf(t) == get_sgid(tidxOf(t), tidyOf(t))

\* ------------------------------------------------------ array writes
\* The loop for (i = lo; i < hi; i++) as the sequence of its values of i.
Range(lo, hi) == [n \in 1..(hi - lo) |-> lo + n - 1]

\* Array f after the assignments f[w[1]] = w[2] for w in ws, in order.
RECURSIVE Poke(_, _)
Poke(f, ws) ==
  IF ws = << >> THEN f
  ELSE LET w == Head(ws)
       IN  Poke(IF w[1] \in DOMAIN f THEN [f EXCEPT ![w[1]] = w[2]] ELSE f,
                Tail(ws))

\* tgid of edge_comm and shared_state_zero.
tgidOf(t) == getGlobalIdx_2D_2D(t) % (blockDim.x * blockDim.y)

\* The values of i that edge_comm's three loops take for thread t, in order.
EdgeRowSeq(t) ==
  LET tgid == tgidOf(t)
  IN  IF tgid < blockDim.y + TWO*OPS
        THEN Range(0, OPS)
             \o Range(blockDim.x + OPS, blockDim.x + TWO*OPS)
             \o (IF tgid < OPS \/ blockDim.x + OPS <= tgid
                   THEN Range(0, blockDim.x + TWO*OPS)
                   ELSE << >>)
        ELSE << >>

EdgeRows(t) == {EdgeRowSeq(t)[n] : n \in DOMAIN EdgeRowSeq(t)}

\* EdgeCopy with the major-axis length left out of the block's row offset.
EdgeCopy_NoRowStride(t, curr_time, i, j) ==
  LET M    == gridDim.y*blockDim.y + 2*OPS
      tgid == tgidOf(t)
      gid  == tgid + blockIdx(t).y*blockDim.y + blockDim.x*blockIdx(t).x
  IN  << tgid + i*(blockDim.y + TWO*OPS) + j*SGIDS,
         gid + i*M + j*VARS + curr_time*TIMES >>

\* <<ntgid, ngid>> of edge_comm's assignment for thread t, row i, variable j.
EdgeCopy(t, curr_time, i, j) ==
  LET M    == gridDim.y*blockDim.y + 2*OPS
      tgid == tgidOf(t)
      gid  == tgid + blockIdx(t).y*blockDim.y + blockDim.x*blockIdx(t).x*M
  IN  << tgid + i*(blockDim.y + TWO*OPS) + j*SGIDS,
         gid + i*M + j*VARS + curr_time*TIMES >>

\* <<ntgid, ngid>> of every assignment of edge_comm by thread t, in order.
EdgeCopies(t, curr_time) ==
  LET rows == EdgeRowSeq(t)
  IN  [n \in 1..(Len(rows) * NV) |->
         EdgeCopy(t, curr_time, rows[((n-1) \div NV) + 1], (n-1) % NV)]

\* shared_state[ntgid] = state[ngid], for every i and j of the loops.
edge_comm(sh, st, t, curr_time) ==
  LET cs == EdgeCopies(t, curr_time)
  IN  Poke(sh, [n \in DOMAIN cs |-> <<cs[n][1], Load(st, cs[n][2])>>])

\* Tile offsets shared_state_zero writes for thread t.
ZeroCells(t) ==
  LET tgid == tgidOf(t)
  IN  IF tgid < blockDim.y + TWO*OPS
        THEN { tgid + i*(blockDim.y+TWO*OPS) + j*SGIDS :
                 i \in 0..blockDim.x+TWO*OPS-1, j \in 0..NV-1 }
        ELSE {}

shared_state_zero(sh, t) ==
  LET cells == ZeroCells(t)
  IN  [o \in DOMAIN sh |-> IF o \in cells THEN 0 ELSE sh[o]]

\* ----------------------------------------------------------- the update
\* step(shared_state, sgid): reads the cell and its neighbours, writes the
\* cell in place, every variable.
Average(a, b, c) == IF Undef \in {a, b, c} THEN Undef ELSE (a + b + c) \div 3

\* Tile offsets step(shared_state, sgid) reads: the cell, and under the
\* average its two neighbours along x, for every variable.
StepReads(sgid) ==
  { sgid + d*TileW + j*SGIDS :
      d \in (IF update = "identity" THEN {0} ELSE {-1, 0, 1}), j \in 0..NV-1 }

\* Tile offsets step(shared_state, sgid) writes: the cell, every variable.
StepWrites(sgid) == { sgid + j*SGIDS : j \in 0..NV-1 }

step(sh, sgid) ==
  IF update = "identity"
    THEN sh
    ELSE Poke(sh, [n \in 1..NV |->
                     LET o == sgid + (n-1)*SGIDS
                     IN  <<o, Average(sh[o - TileW], sh[o], sh[o + TileW])>>])

\* -------------------------------------------------------- swept bounds
\* int(n/2.0): a float division converted to int truncates toward zero.
TruncHalf(n) == IF n >= 0 THEN n \div 2 ELSE -((-n) \div 2)

\* lx = OPS; ly = OPS; ux = blockDim.x+OPS; uy = blockDim.y+OPS
UpBounds ==
  [lx |-> OPS, ly |-> OPS, ux |-> blockDim.x + OPS, uy |-> blockDim.y + OPS]

\* lx = (blockDim.x+OPS)/TWO+1-OPS; ux = (blockDim.x+OPS)/TWO+OPS (floats)
DownBounds ==
  [lx |-> TruncHalf(blockDim.x + OPS + 2*(1 - OPS)),
   ly |-> TruncHalf(blockDim.y + OPS + 2*(1 - OPS)),
   ux |-> TruncHalf(blockDim.x + OPS + 2*OPS),
   uy |-> TruncHalf(blockDim.y + OPS + 2*OPS)]

\* Shrink that moves the upper bounds only.
Shrink_UpperOnly(r) ==
  [lx |-> r.lx, ly |-> r.ly, ux |-> r.ux - OPS, uy |-> r.uy - OPS]

\* ux -= OPS; uy -= OPS; lx += OPS; ly += OPS
Shrink(r) ==
  [lx |-> r.lx + OPS, ly |-> r.ly + OPS, ux |-> r.ux - OPS, uy |-> r.uy - OPS]

\* ux += OPS; uy += OPS; lx -= OPS; ly -= OPS
Grow(r) ==
  [lx |-> r.lx - OPS, ly |-> r.ly - OPS, ux |-> r.ux + OPS, uy |-> r.uy + OPS]

\* InUp with the upper bounds taken inclusive, as in the down loops.
InUp_Inclusive(r, tidx, tidy) ==
  tidx <= r.ux /\ tidx >= r.lx /\ tidy <= r.uy /\ tidy >= r.ly

\* tidx<ux && tidx>=lx && tidy<uy && tidy>=ly
InUp(r, tidx, tidy) == tidx < r.ux /\ tidx >= r.lx /\ tidy < r.uy /\ tidy >= r.ly

\* tidx<=ux && tidx>=lx && tidy<=uy && tidy>=ly
InDown(r, tidx, tidy) ==
  tidx <= r.ux /\ tidx >= r.lx /\ tidy <= r.uy /\ tidy >= r.ly

InRegion(t) ==
  IF half[t] = "up" THEN InUp(reg[t], tidxOf(t), tidyOf(t))
                    ELSE InDown(reg[t], tidxOf(t), tidyOf(t))

Advance(h, r) == IF h = "up" THEN Shrink(r) ELSE Grow(r)

\* ------------------------------------------- what each kernel's halves do
FirstHalf(kn) == IF kn = "UpPyramid" THEN "up" ELSE "down"

FirstBounds(kn) == IF kn = "UpPyramid" THEN UpBounds ELSE DownBounds

\* Whether the half is preceded by edge_comm (the Octahedron's down half is not).
HasEdge(kn, h) == ~(kn = "Octahedron" /\ h = "down")

\* curr_time handed to edge_comm.
EdgeLevel(kn, h) == IF kn = "UpPyramid" THEN ZERO ELSE MPSS

\* SeedLevel with DownPyramid's interior read at the level of its edge_comm.
SeedLevel_DownAtMPSS(kn, h) ==
  IF (kn = "Octahedron" /\ h = "up") \/ kn = "DownPyramid" THEN MPSS ELSE 0

\* Time level of the interior copy state[gid+i*VARS(+MPSS*TIMES)].
SeedLevel(kn, h) == IF kn = "Octahedron" /\ h = "up" THEN MPSS ELSE 0

\* for (int k = LoopStart; k < LoopLimit; k++)
LoopStart(kn, h) == IF kn = "Octahedron" /\ h = "up" THEN MPSS ELSE 0

\* LoopLimit with the up half of the Octahedron running to 2*MPSS.
LoopLimit_OneMore(kn, h) == IF kn = "Octahedron" /\ h = "up" THEN TWO*MPSS ELSE MPSS

LoopLimit(kn, h) == IF kn = "Octahedron" /\ h = "up" THEN TWO*MPSS - ONE ELSE MPSS

\* The blocks that have written global offset o so far, in order.
Writers(o) == IF o \in DOMAIN wrote THEN wrote[o] ELSE << >>

\* --------------------------------------------------------------- Init
FreshThreads(kn) ==
  /\ kernel' = kn
  /\ pc' = [t \in Threads |-> "zero"]
  /\ waiting' = [t \in Threads |-> FALSE]
  /\ shared' = FreshShared
  /\ half' = [t \in Threads |-> FirstHalf(kn)]
  /\ k' = [t \in Threads |-> 0]
  /\ reg' = [t \in Threads |-> FirstBounds(kn)]
  /\ nbar' = [t \in Threads |-> 0]
  /\ tag' = FreshTag
  /\ gread' = {}
  /\ gwrite' = {}

Init ==
  /\ blockDim \in [x : 1..MaxBlockDim, y : 1..MaxBlockDim]
  /\ gridDim \in [x : 1..MaxGridDim, y : 1..MaxGridDim]
  /\ gridDim.x * gridDim.y <= MaxBlocks
  /\ blockDim.x * blockDim.y * gridDim.x * gridDim.y <= MaxThreads
  /\ OPS \in 1..MaxOPS
  /\ MPSS \in 1..MaxMPSS
  /\ NV \in 1..MaxNV
  /\ StateSize <= MaxStateSize
  /\ update \in {"identity", "average"}
  /\ kernel = "UpPyramid"
  /\ nOct = 0
  /\ state = [o \in 0..StateSize-1 |-> Seeded(o)]
  /\ shared = FreshShared
  /\ pc = [t \in Threads |-> "zero"]
  /\ waiting = [t \in Threads |-> FALSE]
  /\ hung = [b \in Blocks |-> FALSE]
  /\ half = [t \in Threads |-> "up"]
  /\ k = [t \in Threads |-> 0]
  /\ reg = [t \in Threads |-> UpBounds]
  /\ nbar = [t \in Threads |-> 0]
  /\ wrote = [o \in 0..StateSize-1 |-> << >>]
  /\ wlog = {}
  /\ rlog = {}
  /\ tag = FreshTag
  /\ gread = {}
  /\ gwrite = {}

\* ------------------------------------------------------------- actions
Running(t) == ~waiting[t]

\* The thread arrives at __syncthreads() and continues at `next` once released.
Arrive(t, next) ==
  /\ waiting' = [waiting EXCEPT ![t] = TRUE]
  /\ nbar' = [nbar EXCEPT ![t] = @ + 1]
  /\ pc' = [pc EXCEPT ![t] = next]

\* shared_state_zero(shared_state), up to its __syncthreads().
Zero(t) ==
  /\ pc[t] = "zero" /\ Running(t)
  /\ shared' = [shared EXCEPT ![BlockOf(t)] = shared_state_zero(@, t)]
  /\ tag' = [tag EXCEPT ![BlockOf(t)] =
               [o \in DOMAIN @ |-> IF o \in ZeroCells(t) THEN Zeroed ELSE @[o]]]
  /\ Arrive(t, IF HasEdge(kernel, half[t]) THEN "edge" ELSE "seed")
  /\ UNCHANGED <<config, hung, kernel, nOct, state, half, k, reg, wrote, wlog, rlog,
                 gread, gwrite>>

\* edge_comm(shared_state, state, curr_time), up to its __syncthreads().
Edge(t) ==
  /\ pc[t] = "edge" /\ Running(t)
  /\ shared' = [shared EXCEPT ![BlockOf(t)] =
                  edge_comm(@, state, t, EdgeLevel(kernel, half[t]))]
  /\ rlog' = LET cs == EdgeCopies(t, EdgeLevel(kernel, half[t]))
             IN  rlog \cup {<<kernel, half[t], "halo", cs[n][2] \div TIMES>> :
                               n \in DOMAIN cs}
  /\ tag' = LET cs == EdgeCopies(t, EdgeLevel(kernel, half[t]))
            IN  [tag EXCEPT ![BlockOf(t)] =
                   Poke(@, [n \in DOMAIN cs |-> <<cs[n][1], cs[n][2] \div TIMES>>])]
  /\ gread' = LET cs == EdgeCopies(t, EdgeLevel(kernel, half[t]))
              IN  gread \cup {<<BlockOf(t), cs[n][2]>> : n \in DOMAIN cs}
  /\ Arrive(t, "seed")
  /\ UNCHANGED <<config, hung, kernel, nOct, state, half, k, reg, wrote, wlog, gwrite>>

\* <<tile offset, global offset>> of the interior copy
\* shared_state[sgid+i*SGIDS] = state[gid+i*VARS(+MPSS*TIMES)].
SeedCopy(t, i) ==
  << sgidOf(t) + i*SGIDS,
     get_gid(t) + i*VARS + SeedLevel(kernel, half[t])*TIMES >>

\* The interior copy, up to the __syncthreads() before the loop; k starts.
Seed(t) ==
  /\ pc[t] = "seed" /\ Running(t)
  /\ shared' = [shared EXCEPT ![BlockOf(t)] =
        Poke(@, [n \in 1..NV |->
                   <<SeedCopy(t, n-1)[1], Load(state, SeedCopy(t, n-1)[2])>>])]
  /\ rlog' = rlog \cup {<<kernel, half[t], "interior", SeedCopy(t, n-1)[2] \div TIMES>> :
                          n \in 1..NV}
  /\ tag' = [tag EXCEPT ![BlockOf(t)] =
        Poke(@, [n \in 1..NV |->
                   <<SeedCopy(t, n-1)[1], SeedCopy(t, n-1)[2] \div TIMES>>])]
  /\ gread' = gread \cup {<<BlockOf(t), SeedCopy(t, n-1)[2]>> : n \in 1..NV}
  /\ k' = [k EXCEPT ![t] = LoopStart(kernel, half[t])]
  /\ Arrive(t, "loop")
  /\ UNCHANGED <<config, hung, kernel, nOct, state, half, reg, wrote, wlog, gwrite>>

\* One loop iteration of a thread inside the swept bounds, first part:
\* step(shared_state, sgid), up to the first __syncthreads().
Step(t) ==
  /\ pc[t] = "loop" /\ Running(t)
  /\ k[t] < LoopLimit(kernel, half[t])
  /\ InRegion(t)
  /\ shared' = [shared EXCEPT ![BlockOf(t)] = step(@, sgidOf(t))]
  /\ tag' = [tag EXCEPT ![BlockOf(t)] =
               Poke(@, [n \in 1..NV |-> <<sgidOf(t) + (n-1)*SGIDS, k[t] + 1>>])]
  /\ Arrive(t, "write")
  /\ UNCHANGED <<config, hung, kernel, nOct, state, half, k, reg, wrote, wlog, rlog,
                 gread, gwrite>>

\* Second part: the write-back to time level k+1 and the re-seed, up to the
\* second __syncthreads(); then the swept bounds move and k++.
WriteBack(t) ==
  LET sh    == shared[BlockOf(t)]
      \* <<state offset, shared_state offset>> for j = 0 .. NV-1
      cells == [n \in 1..NV |->
                  << get_gid(t) + (n-1)*VARS + (k[t]+1)*TIMES,
                     sgidOf(t) + (n-1)*SGIDS >>]
      st    == Poke(state, [n \in 1..NV |-> <<cells[n][1], sh[cells[n][2]]>>])
  IN
  /\ pc[t] = "write" /\ Running(t)
  /\ state' = st
  /\ shared' = [shared EXCEPT ![BlockOf(t)] =
                  Poke(@, [n \in 1..NV |-> <<cells[n][2], Load(st, cells[n][1])>>])]
  /\ wrote' = Poke(wrote, [n \in 1..NV |->
                     <<cells[n][1], Append(Writers(cells[n][1]), BlockOf(t))>>])
  /\ wlog' = wlog \cup {<<kernel, half[t], cells[n][1] \div TIMES>> : n \in 1..NV}
  /\ tag' = [tag EXCEPT ![BlockOf(t)] =
               Poke(@, [n \in 1..NV |-> <<cells[n][2], cells[n][1] \div TIMES>>])]
  /\ gwrite' = gwrite \cup {<<BlockOf(t), cells[n][1]>> : n \in 1..NV}
  /\ gread' = gread \cup {<<BlockOf(t), cells[n][1]>> : n \in 1..NV}
  /\ reg' = [reg EXCEPT ![t] = Advance(half[t], @)]
  /\ k' = [k EXCEPT ![t] = @ + 1]
  /\ Arrive(t, "loop")
  /\ UNCHANGED <<config, hung, kernel, nOct, half, rlog>>

\* One loop iteration of a thread outside the swept bounds: the if-body is
\* skipped, barriers included; the swept bounds move and k++.
Skip(t) ==
  /\ pc[t] = "loop" /\ Running(t)
  /\ k[t] < LoopLimit(kernel, half[t])
  /\ ~InRegion(t)
  /\ reg' = [reg EXCEPT ![t] = Advance(half[t], @)]
  /\ k' = [k EXCEPT ![t] = @ + 1]
  /\ UNCHANGED <<config, hung, kernel, nOct, state, shared, pc, waiting, half, nbar,
                 wrote, wlog, rlog, tag, gread, gwrite>>

\* The Octahedron's down loop ends: the swept bounds are reassigned and the
\* up half begins with edge_comm.
NextHalf(t) ==
  /\ pc[t] = "loop" /\ Running(t)
  /\ k[t] >= LoopLimit(kernel, half[t])
  /\ kernel = "Octahedron" /\ half[t] = "down"
  /\ half' = [half EXCEPT ![t] = "up"]
  /\ reg' = [reg EXCEPT ![t] = UpBounds]
  /\ pc' = [pc EXCEPT ![t] = "edge"]
  /\ UNCHANGED <<config, hung, kernel, nOct, state, shared, waiting, k, nbar,
                 wrote, wlog, rlog, tag, gread, gwrite>>

\* The kernel's last loop ends: the thread exits.
Exit(t) ==
  /\ pc[t] = "loop" /\ Running(t)
  /\ k[t] >= LoopLimit(kernel, half[t])
  /\ ~(kernel = "Octahedron" /\ half[t] = "down")
  /\ pc' = [pc EXCEPT ![t] = "done"]
  /\ UNCHANGED <<config, hung, kernel, nOct, state, shared, waiting, half, k, reg,
                 nbar, wrote, wlog, rlog, tag, gread, gwrite>>

\* Every thread of block b that has not exited waits in __syncthreads().
Arrived(b) ==
  /\ \E t \in ThreadsOf(b) : waiting[t]
  /\ \A t \in ThreadsOf(b) : waiting[t] \/ pc[t] = "done"

\* Some thread of block b exited while others wait for it in __syncthreads():
\* the barrier sits in conditional code that the block did not take as one.
Diverged(b) == Arrived(b) /\ \E t \in ThreadsOf(b) : pc[t] = "done"

\* __syncthreads() of block b lets its waiting threads go.  With the whole
\* block waiting this is the barrier's defined behaviour; after a divergence
\* it is one of the two outcomes of the undefined behaviour (the hardware
\* stops counting the threads that exited).
BarrierRelease(b) ==
  /\ Arrived(b)
  /\ ~hung[b]
  /\ waiting' = [t \in Threads |-> IF BlockOf(t) = b THEN FALSE ELSE waiting[t]]
  /\ UNCHANGED <<config, hung, kernel, nOct, state, shared, pc, half, k, reg, nbar,
                 wrote, wlog, rlog, tag, gread, gwrite>>

\* The other outcome of a divergence: the barrier waits for all threads of
\* the block, the exited ones never arrive, and the block hangs.
Hang(b) ==
  /\ Diverged(b)
  /\ ~hung[b]
  /\ hung' = [hung EXCEPT ![b] = TRUE]
  /\ UNCHANGED <<config, kernel, nOct, state, shared, pc, waiting, half, k, reg,
                 nbar, wrote, wlog, rlog, tag, gread, gwrite>>

KernelDone == \A t \in Threads : pc[t] = "done"

\* The host launches the next kernel of the cycle when the last one has run
\* to completion: UpPyramid, then Octahedron zero or more times, then
\* DownPyramid, over the same grid and the same global array.
LaunchOctahedron ==
  /\ KernelDone
  /\ kernel \in {"UpPyramid", "Octahedron"}
  /\ nOct < MaxOct
  /\ nOct' = nOct + 1
  /\ FreshThreads("Octahedron")
  /\ UNCHANGED <<config, hung, state, wrote, wlog, rlog>>

LaunchDownPyramid ==
  /\ KernelDone
  /\ kernel \in {"UpPyramid", "Octahedron"}
  /\ FreshThreads("DownPyramid")
  /\ UNCHANGED <<config, hung, nOct, state, wrote, wlog, rlog>>

Next ==
  \/ \E t \in Threads : Zero(t)
  \/ \E t \in Threads : Edge(t)
  \/ \E t \in Threads : Seed(t)
  \/ \E t \in Threads : Step(t)
  \/ \E t \in Threads : WriteBack(t)
  \/ \E t \in Threads : Skip(t)
  \/ \E t \in Threads : NextHalf(t)
  \/ \E t \in Threads : Exit(t)
  \/ \E b \in Blocks : BarrierRelease(b)
  \/ \E b \in Blocks : Hang(b)
  \/ LaunchOctahedron
  \/ LaunchDownPyramid

Spec == Init /\ [][Next]_vars

\* ----------------------------------------------- the end-to-end scenario
\* One 8x8 tile, radius 1, one variable, 4 pyramid steps, the 3-point
\* average, level 0 seeded with 1 everywhere.
Init8x8 ==
  /\ blockDim = [x |-> 8, y |-> 8]
  /\ gridDim = [x |-> 1, y |-> 1]
  /\ OPS = 1
  /\ MPSS = 4
  /\ NV = 1
  /\ update = "average"
  /\ kernel = "UpPyramid"
  /\ nOct = 0
  /\ state = [o \in 0..StateSize-1 |-> Seeded(o)]
  /\ shared = FreshShared
  /\ pc = [t \in Threads |-> "zero"]
  /\ waiting = [t \in Threads |-> FALSE]
  /\ hung = [b \in Blocks |-> FALSE]
  /\ half = [t \in Threads |-> "up"]
  /\ k = [t \in Threads |-> 0]
  /\ reg = [t \in Threads |-> UpBounds]
  /\ nbar = [t \in Threads |-> 0]
  /\ wrote = [o \in 0..StateSize-1 |-> << >>]
  /\ wlog = {}
  /\ rlog = {}
  /\ tag = FreshTag
  /\ gread = {}
  /\ gwrite = {}

\* One schedule of the 64 threads: of the threads that can run, the one
\* with the lowest thread id runs.
Turn(t) ==
  /\ Running(t) /\ pc[t] # "done"
  /\ \A u \in Threads :
       (Running(u) /\ pc[u] # "done") =>
          getGlobalIdx_2D_2D(t) <= getGlobalIdx_2D_2D(u)

Next8x8 ==
  \/ \E t \in Threads : Turn(t) /\ Zero(t)
  \/ \E t \in Threads : Turn(t) /\ Edge(t)
  \/ \E t \in Threads : Turn(t) /\ Seed(t)
  \/ \E t \in Threads : Turn(t) /\ Step(t)
  \/ \E t \in Threads : Turn(t) /\ WriteBack(t)
  \/ \E t \in Threads : Turn(t) /\ Skip(t)
  \/ \E t \in Threads : Turn(t) /\ NextHalf(t)
  \/ \E t \in Threads : Turn(t) /\ Exit(t)
  \/ \E b \in Blocks : BarrierRelease(b)
  \/ \E b \in Blocks : Hang(b)
  \/ LaunchOctahedron
  \/ LaunchDownPyramid

Spec8x8 == Init8x8 /\ [][Next8x8]_vars

\* ------------------------------------------- the initial down-half bounds
\* The bounds computation of the Octahedron's down half and of DownPyramid
\* on its own, over tile dimensions and radii beyond those of Spec: a grid
\* of one tile, and the kernel taken up to the assignment of lx, ly, ux, uy.
InitBounds ==
  /\ blockDim \in [x : 1..MaxTile, y : 1..MaxTile]
  /\ gridDim = [x |-> 1, y |-> 1]
  /\ OPS \in 1..MaxRadius
  /\ MPSS = 1
  /\ NV = 1
  /\ update = "identity"
  /\ kernel = "UpPyramid"
  /\ nOct = 0
  /\ state = [o \in 0..StateSize-1 |-> Seeded(o)]
  /\ shared = FreshShared
  /\ pc = [t \in Threads |-> "zero"]
  /\ waiting = [t \in Threads |-> FALSE]
  /\ hung = [b \in Blocks |-> FALSE]
  /\ half = [t \in Threads |-> "up"]
  /\ k = [t \in Threads |-> 0]
  /\ reg = [t \in Threads |-> UpBounds]
  /\ nbar = [t \in Threads |-> 0]
  /\ wrote = [o \in 0..StateSize-1 |-> << >>]
  /\ wlog = {}
  /\ rlog = {}
  /\ tag = FreshTag
  /\ gread = {}
  /\ gwrite = {}

\* Kernel kn is entered and its threads get their first swept bounds.
EnterKernel(kn) ==
  /\ kernel = "UpPyramid"
  /\ FreshThreads(kn)
  /\ UNCHANGED <<config, hung, nOct, state, wrote, wlog, rlog>>

NextBounds ==
  \/ EnterKernel("Octahedron")
  \/ EnterKernel("DownPyramid")

SpecBounds == InitBounds /\ [][NextBounds]_vars

\* ======================================================================
\* Properties
\* ======================================================================

\* Threads of one block.
SameBlock(t, u) == BlockOf(t) = BlockOf(u)

\* C1: in every invocation all threads of a block pass through the same
\* number of barriers: two threads of one block that have reached the end
\* of the kernel have arrived at __syncthreads() equally often (a thread
\* outside the swept bounds at step k would still reach both barriers of k).
C1_SameBarrierCount ==
  \A t \in Threads : \A u \in Threads :
    (SameBlock(t, u) /\ pc[t] = "done" /\ pc[u] = "done") => nbar[t] = nbar[u]

\* Some action of Next is enabled: a thread can run, a barrier can release
\* or diverge, or the host can launch the next kernel.
CanMove ==
  \/ \E t \in Threads : Running(t) /\ pc[t] # "done"
  \/ \E b \in Blocks : Arrived(b) /\ ~hung[b]
  \/ KernelDone /\ kernel # "DownPyramid"

\* C2: every invocation runs to completion under a barrier that releases
\* only when all threads of the block have arrived: the execution never
\* stops before every thread has reached the end of the kernel.
C2_RunsToCompletion == KernelDone \/ CanMove

\* The block b has just returned from a helper that ends with the barrier
\* number n of the kernel: all its threads were released from it and none
\* has moved since.
JustPassed(b, n) == \A t \in ThreadsOf(b) : nbar[t] = n /\ ~waiting[t]

\* Halo-padded tile positions, and those outside the interior.
TilePos == (0..TileH-1) \X (0..TileW-1)

IsHalo(p) ==
  \/ p[1] < OPS \/ p[1] >= blockDim.x + OPS
  \/ p[2] < OPS \/ p[2] >= blockDim.y + OPS

\* The global offset of the grid cell under tile position p of block b,
\* variable j, time level lvl: padded row blockDim.x*b.x + p.x, padded
\* column blockDim.y*b.y + p.y of a plane GlobalM wide.
CellOf(b, p, j, lvl) ==
  (blockDim.x*b[1] + p[1]) * GlobalM + (blockDim.y*b[2] + p[2])
    + j*VARS + lvl*TIMES

TileAt(b, p, j) == shared[b][p[2] + p[1]*TileW + j*SGIDS]

\* C3: after edge_comm at time level t returns, every halo cell of the tile
\* buffer (four sides and corners, every variable) equals the corresponding
\* cell of the global array at level t, for every tile shape.
C3_HaloFilled ==
  \A b \in Blocks :
    (kernel = "UpPyramid" /\ JustPassed(b, 2)) =>
      \A p \in TilePos : \A j \in 0..NV-1 :
        IsHalo(p) => TileAt(b, p, j) = state[CellOf(b, p, j, ZERO)]

\* The cycle UpPyramid, Octahedron*, DownPyramid has run to its end.
CycleDone == kernel = "DownPyramid" /\ KernelDone

\* Global offsets of the cells the grid's threads own, at a level the cycle
\* has written.
ProducedCells ==
  { get_gid(t) + j*VARS + w[3]*TIMES : t \in Threads, j \in 0..NV-1, w \in wlog }

\* C4: over a cycle every persistent cell of the time levels the cycle
\* produces is written by exactly one block and exactly once: no cell is
\* ever written twice, and at the end of the cycle every such cell has been
\* written.
C4_WriteOnce ==
  /\ \A o \in DOMAIN wrote : Len(wrote[o]) <= 1
  /\ CycleDone => \A o \in ProducedCells : Len(wrote[o]) = 1

\* C7: after shared_state_zero returns, every cell of the tile buffer (every
\* variable, every halo-padded position) is zero, for every tile shape and
\* radius.
C7_TileZeroed ==
  \A b \in Blocks :
    JustPassed(b, 1) => \A o \in DOMAIN shared[b] : shared[b][o] = 0

\* The swept bounds of thread t after n moves from the bounds r0 of step 0.
ErodedBy(r0, n) ==
  [lx |-> r0.lx + n*OPS, ly |-> r0.ly + n*OPS,
   ux |-> r0.ux - n*OPS, uy |-> r0.uy - n*OPS]

GrownBy(r0, n) ==
  [lx |-> r0.lx - n*OPS, ly |-> r0.ly - n*OPS,
   ux |-> r0.ux + n*OPS, uy |-> r0.uy + n*OPS]

Max0(n) == IF n > 0 THEN n ELSE 0

\* Cells of the region: upper bounds exclusive in the up loops, inclusive in
\* the down loops.
AreaUp(r) == Max0(r.ux - r.lx) * Max0(r.uy - r.ly)

AreaDown(r) == Max0(r.ux - r.lx + 1) * Max0(r.uy - r.ly + 1)

\* The region a thread tests at step k is the step-0 region moved k*OPS.
RegionExact ==
  \A t \in Threads :
    /\ kernel = "UpPyramid" => reg[t] = ErodedBy(UpBounds, k[t])
    /\ kernel = "DownPyramid" => reg[t] = GrownBy(DownBounds, k[t])

\* Thread t goes from step k to a step k+1 that the loop still runs.
NextStep(t) == k'[t] = k[t] + 1 /\ k'[t] < MPSS /\ kernel' = kernel

\* C5 as stated: the region at step k is exactly the step-0 region eroded
\* (UpPyramid) or grown (DownPyramid) by k*OPS on every side, and its area
\* strictly decreases (Up) or strictly increases (Down) from every step to
\* the next.
C5_RegionStrict ==
  /\ []RegionExact
  /\ [][\A t \in Threads : NextStep(t) =>
          /\ kernel = "UpPyramid" => AreaUp(reg'[t]) < AreaUp(reg[t])
          /\ kernel = "DownPyramid" => AreaDown(reg'[t]) > AreaDown(reg[t])]_vars

\* C5 as amended: the region at step k is exactly the step-0 region eroded
\* (UpPyramid) or grown (DownPyramid) by k*OPS on every side; its area
\* strictly increases from every step to the next in DownPyramid; in
\* UpPyramid it strictly decreases from a step with a non-empty region to the
\* next, and an empty region stays empty.
C5_RegionNesting ==
  /\ []RegionExact
  /\ [][\A t \in Threads : NextStep(t) =>
          /\ kernel = "UpPyramid" =>
               IF AreaUp(reg[t]) > 0
                 THEN AreaUp(reg'[t]) < AreaUp(reg[t])
                 ELSE AreaUp(reg'[t]) = 0
          /\ kernel = "DownPyramid" => AreaDown(reg'[t]) > AreaDown(reg[t])]_vars

\* A thread of UpPyramid tests its third region, one of DownPyramid its second.
C5_Witness ==
  \E t \in Threads :
    /\ pc[t] = "loop" /\ Running(t)
    /\ \/ kernel = "UpPyramid" /\ k[t] = 2 /\ MPSS > 2
       \/ kernel = "DownPyramid" /\ k[t] = 1 /\ MPSS > 1

\* C6: get_sgid maps distinct halo-padded tile positions to distinct offsets
\* of the tile buffer, and get_gid maps distinct (block, thread) pairs of the
\* grid to distinct offsets of the padded global plane (so, for a fixed
\* variable and time level, to distinct cells of the global array).
C6_IndexInjective ==
  /\ \A p \in TilePos : get_sgid(p[1], p[2]) \in 0..SGIDS-1
  /\ Cardinality({get_sgid(p[1], p[2]) : p \in TilePos}) = Cardinality(TilePos)
  /\ \A t \in Threads : get_gid(t) \in 0..VARS-1
  /\ Cardinality({get_gid(t) : t \in Threads}) = Cardinality(Threads)

\* Threads of a grid of two blocks with a non-square tile have used both maps.
C6_Witness ==
  /\ gridDim.x * gridDim.y > 1
  /\ blockDim.x # blockDim.y
  /\ \A t \in Threads : pc[t] = "loop"

\* Thread t's tile-local coordinate is outside its current swept bounds.
OutsideBounds(t) ==
  LET x == threadIdx(t).x + OPS
      y == threadIdx(t).y + OPS
  IN  IF half[t] = "up"
        THEN x < reg[t].lx \/ x >= reg[t].ux \/ y < reg[t].ly \/ y >= reg[t].uy
        ELSE x < reg[t].lx \/ x > reg[t].ux \/ y < reg[t].ly \/ y > reg[t].uy

\* Thread t takes the step.
Moves(t) == <<pc[t], k[t], waiting[t]>> # <<pc'[t], k'[t], waiting'[t]>>

\* C8: at every step k of every stage a thread outside the current swept
\* bounds performs no update and no write: its step leaves the tile buffer
\* and the global array as they are and takes it to step k+1.
C8_OutsideNoUpdate ==
  [][\A t \in Threads :
       ( /\ pc[t] = "loop" /\ Running(t)
         /\ k[t] < LoopLimit(kernel, half[t])
         /\ OutsideBounds(t)
         /\ Moves(t) )
       => /\ shared' = shared /\ state' = state /\ wrote' = wrote
          /\ pc'[t] = "loop" /\ k'[t] = k[t] + 1]_vars

\* A thread of DownPyramid has skipped step 0 while another thread of its
\* block is in the middle of step 0.
C8_Witness ==
  \E t \in Threads : \E u \in Threads :
    /\ SameBlock(t, u) /\ kernel = "DownPyramid"
    /\ pc[t] = "loop" /\ k[t] = 1 /\ nbar[t] = 3
    /\ pc[u] = "write" /\ k[u] = 0

\* C9: in an Octahedron invocation the down half writes only time levels
\* 1..MPSS, the up half reads its halo and its interior from level MPSS and
\* writes only levels MPSS+1..2*MPSS-1 (so level 0 and the levels above
\* 2*MPSS-1 are never written).
C9_OctahedronLevels ==
  /\ \A w \in wlog :
       w[1] = "Octahedron" =>
         IF w[2] = "down" THEN w[3] \in 1..MPSS
                          ELSE w[3] \in (MPSS+1)..(2*MPSS-1)
  /\ \A r \in rlog : (r[1] = "Octahedron" /\ r[2] = "up") => r[4] = MPSS

\* An Octahedron has written in both halves, and its up half was seeded.
C9_Witness ==
  /\ <<"Octahedron", "down", MPSS>> \in wlog
  /\ <<"Octahedron", "up", 2*MPSS - 1>> \in wlog
  /\ <<"Octahedron", "up", "halo", MPSS>> \in rlog
  /\ <<"Octahedron", "up", "interior", MPSS>> \in rlog

\* C10: UpPyramid then DownPyramid with the identity update: every global
\* cell written (at a level k >= 1) holds that cell's value of time level 0,
\* and time level 0 is not modified.
C10_IdentityRoundTrip ==
  (update = "identity" /\ nOct = 0) =>
    \A o \in DOMAIN state :
      /\ o < TIMES => (state[o] = Seeded(o) /\ wrote[o] = << >>)
      /\ wrote[o] # << >> => state[o] = Seeded(o % TIMES)

\* UpPyramid and DownPyramid have both run and written the same cell.
C10_Witness ==
  /\ update = "identity" /\ nOct = 0 /\ CycleDone
  /\ \E o \in DOMAIN wrote : Len(wrote[o]) = 2

\* C11: in the end-to-end scenario (radius 1, one variable, an 8x8 tile, 4
\* pyramid steps, the 3-point average, level 0 seeded with 1 everywhere)
\* every value the UpPyramid / Octahedron / DownPyramid sequence writes at
\* time levels 1 to 4 equals the seed value.
C11_SteadyState ==
  \A o \in DOMAIN state :
    (wrote[o] # << >> /\ (o \div TIMES) \in 1..4) => state[o] = Seeded(o % TIMES)

\* The pyramid loop thread t is in or heading for: 0 for the first loop of
\* the invocation, 1 for the up half of the Octahedron.
HalfIdx(t) == IF kernel = "Octahedron" /\ half[t] = "up" THEN 1 ELSE 0

\* Thread t has written the tile buffer in edge_comm or in the interior copy.
WroteSeed(t) ==
  \/ HalfIdx(t) = 1
  \/ pc[t] \in {"loop", "write", "done"}
  \/ pc[t] = "seed" /\ HasEdge(kernel, half[t])

\* Thread u has left the barrier of shared_state_zero.
ResetPassed(u) == pc[u] # "zero" /\ ~(waiting[u] /\ nbar[u] = 1)

\* Thread u has made its seeding writes for loop h.
SeedDone(u, h) ==
  \/ HalfIdx(u) > h
  \/ HalfIdx(u) = h /\ pc[u] \in {"loop", "write", "done"}

\* Tile Reset and its barrier come before every seeding write.
ResetFirst ==
  \A t \in Threads : \A u \in Threads :
    (SameBlock(t, u) /\ WroteSeed(t)) => ResetPassed(u)

\* Every seeding write for a loop comes before every update of that loop.
SeedBeforeUpdate ==
  \A t \in Threads : \A u \in Threads :
    (SameBlock(t, u) /\ pc[t] = "write") => SeedDone(u, HalfIdx(t))

\* C12: in every stage Tile Reset has completed and all threads have passed
\* its barrier before any thread writes the tile buffer in Edge Exchange or
\* in the interior seeding, and a barrier separates the last seeding write
\* from the first update of the pyramid loop: no thread has updated while a
\* thread of its block has not yet seeded for that loop.
C12_Ordering == ResetFirst /\ SeedBeforeUpdate

\* Thread t applies the update in this step.
Updates(t) == pc[t] = "loop" /\ pc'[t] = "write"

\* C13: in UpPyramid, whenever a thread applies the update at local step k,
\* every tile-buffer cell the update reads (its own cell and its neighbours
\* within the stencil, interior or halo) holds that cell's value of time
\* level k, the level the step starts from, under any interleaving.
C13_StencilLevel ==
  [][\A t \in Threads :
       (kernel = "UpPyramid" /\ Updates(t)) =>
          \A o \in StepReads(sgidOf(t)) : tag[BlockOf(t)][o] = k[t]]_vars

\* C14: within one kernel invocation no block reads a cell of the global
\* array that a different block writes during that invocation.
C14_NoCrossGroupRace ==
  \A r \in gread : \A w \in gwrite : r[2] = w[2] => r[1] = w[1]

\* Thread u has updated its cell in place and has not yet been released from
\* the barrier that follows the update.
UpdatedUnsynced(u) == pc[u] = "write" /\ waiting[u]

\* C15: between two consecutive barriers no thread reads a tile-buffer cell
\* that another thread of its block writes: when a thread applies the
\* update, no cell it reads has been updated in place by another thread
\* that is still before the barrier after its update (so the values written
\* do not depend on the order of the threads between barriers).
C15_NoIntraGroupRace ==
  [][\A t \in Threads :
       Updates(t) =>
         \A u \in ThreadsOf(BlockOf(t)) \ {t} :
           UpdatedUnsynced(u) =>
             StepWrites(sgidOf(u)) \cap StepReads(sgidOf(t)) = {}]_vars

\* Interior cells of an axis of length n (tile-local coordinates OPS ..
\* n+OPS-1) below the lower bound lo, and above the inclusive upper bound hi.
InteriorBelow(n, lo) == Cardinality({c \in OPS..(n + OPS - 1) : c < lo})

InteriorAbove(n, hi) == Cardinality({c \in OPS..(n + OPS - 1) : c > hi})

\* C16: the initial valid region of the Octahedron's down half and of
\* DownPyramid is centred in the tile interior in each axis: as many
\* interior cells lie below lx as above ux (and below ly as above uy), for
\* every even tile dimension and every radius OPS >= 1.
C16_Centred ==
  \A t \in Threads :
    (kernel \in {"Octahedron", "DownPyramid"} /\ half[t] = "down" /\ k[t] = 0) =>
      /\ blockDim.x % 2 = 0 =>
           InteriorBelow(blockDim.x, reg[t].lx) = InteriorAbove(blockDim.x, reg[t].ux)
      /\ blockDim.y % 2 = 0 =>
           InteriorBelow(blockDim.y, reg[t].ly) = InteriorAbove(blockDim.y, reg[t].uy)

\* The pyramid loops that are seeded by both Edge Exchange and the interior
\* copy: UpPyramid, the up half of the Octahedron, DownPyramid.
SeededLoops == {<<"UpPyramid", "up">>, <<"Octahedron", "up">>, <<"DownPyramid", "down">>}

\* C17: every tile-buffer cell seeded from the global array for one pyramid
\* loop (halo cells by Edge Exchange, interior cells by the interior copy) is
\* read from one and the same time level, in UpPyramid, in the up half of
\* the Octahedron and in DownPyramid.
C17_SeedOneLevel ==
  \A r \in rlog : \A q \in rlog :
    (<<r[1], r[2]>> \in SeededLoops /\ r[1] = q[1] /\ r[2] = q[2]) => r[4] = q[4]

\* C18: no update reads an unseeded cell: whenever a thread applies the
\* update, in any stage and at any step, every tile-buffer cell the update
\* reads was seeded from the global array or written by an earlier update
\* (it does not hold the zero of Tile Reset, nor was it left unwritten).
C18_NoUnseededRead ==
  [][\A t \in Threads :
       Updates(t) =>
         \A o \in StepReads(sgidOf(t)) : tag[BlockOf(t)][o] >= 0]_vars

\* Thread t has made the writes of edge_comm and waits in its barrier.
EdgeJustDone(t) == pc[t] = "seed" /\ waiting[t] /\ HasEdge(kernel, half[t])

\* Thread t has made the writes of shared_state_zero and waits in its barrier.
ZeroJustDone(t) == nbar[t] = 1 /\ waiting[t]

\* Row and column, in the padded global plane, of position (i, c) of the
\* halo-padded tile of thread t's block.
PlaneRow(t, i) == blockDim.x*blockIdx(t).x + i

PlaneCol(t, c) == blockDim.y*blockIdx(t).y + c

\* Thread u owns the grid cell at that row and column of the padded plane.
Owns(u, row, col) ==
  /\ OPS + threadIdx(u).x + blockDim.x*blockIdx(u).x = row
  /\ OPS + threadIdx(u).y + blockDim.y*blockIdx(u).y = col

\* C19: for every tile-local position (i, c) edge_comm copies, the tile
\* offset it writes equals get_sgid(i, c) (plus the variable's stride), the
\* global offset it reads equals the offset get_gid yields for the thread,
\* of this or a neighbouring tile, that owns that grid position (plus the
\* variable's and the level's strides), and the read stays inside the padded
\* global plane; the offsets shared_state_zero writes equal get_sgid(i, c)
\* as well.
C19_AddressingAgreement ==
  \A t \in Threads :
    /\ EdgeJustDone(t) =>
         \A i \in EdgeRows(t) : \A j \in 0..NV-1 :
           LET c   == tgidOf(t)
               lvl == EdgeLevel(kernel, half[t])
               cp  == EdgeCopy(t, lvl, i, j)
               row == PlaneRow(t, i)
               col == PlaneCol(t, c)
           IN  /\ cp[1] = get_sgid(i, c) + j*SGIDS
               /\ \A u \in Threads :
                    Owns(u, row, col) => cp[2] = get_gid(u) + j*VARS + lvl*TIMES
               /\ row \in 0..GlobalRows-1 /\ col \in 0..GlobalM-1
               /\ cp[2] - j*VARS - lvl*TIMES \in 0..VARS-1
    /\ ZeroJustDone(t) =>
         ZeroCells(t) \subseteq
           { get_sgid(i, tgidOf(t)) + j*SGIDS : i \in 0..TileH-1, j \in 0..NV-1 }

\* A thread has copied, in edge_comm, a halo cell that a thread of a
\* neighbouring tile owns.
C19_Witness ==
  \E t \in Threads : \E u \in Threads :
    /\ EdgeJustDone(t) /\ ~SameBlock(t, u)
    /\ \E i \in EdgeRows(t) : Owns(u, PlaneRow(t, i), PlaneCol(t, tgidOf(t)))

\* Tile offset o is a halo cell: its tile-local position is outside
\* [OPS, blockDim+OPS) in at least one axis.
IsHaloOffset(o) == IsHalo(<<(o % SGIDS) \div TileW, (o % SGIDS) % TileW>>)

\* Tile offsets edge_comm writes for thread t.
EdgeTargets(t) ==
  LET cs == EdgeCopies(t, EdgeLevel(kernel, half[t]))
  IN  {cs[n][1] : n \in DOMAIN cs}

\* Thread t runs edge_comm in this step.
Exchanges(t) == pc[t] = "edge" /\ pc'[t] = "seed"

\* C20: edge_comm modifies only halo cells of the tile buffer: a thread's
\* edge_comm leaves every interior cell of the tile buffer and the whole
\* global array unchanged, and writes no tile-buffer cell that the
\* edge_comm of another thread of the block writes, for every tile shape.
C20_EdgeFrame ==
  [][\A t \in Threads :
       Exchanges(t) =>
         /\ \A o \in DOMAIN shared[BlockOf(t)] :
              ( \/ shared'[BlockOf(t)][o] # shared[BlockOf(t)][o]
                \/ tag'[BlockOf(t)][o] # tag[BlockOf(t)][o] ) => IsHaloOffset(o)
         /\ state' = state
         /\ \A u \in ThreadsOf(BlockOf(t)) \ {t} :
              EdgeTargets(t) \cap EdgeTargets(u) = {}]_vars

\* The parts of C20 that do not depend on the tile shape.
EdgeFrameGlobal ==
  [][\A t \in Threads :
       Exchanges(t) =>
         /\ state' = state
         /\ \A u \in ThreadsOf(BlockOf(t)) \ {t} :
              EdgeTargets(t) \cap EdgeTargets(u) = {}]_vars

====
